---- MODULE Spec2Model ----
(***************************************************************************)
(* GraphSentinel (src/main.py): threat intake pipeline.                    *)
(*                                                                         *)
(* The FastAPI handlers run as coroutines on one event loop, so a handler  *)
(* runs without interleaving from one await that suspends to the next.     *)
(* process_threat suspends only inside generate_voice_alert, at the POST   *)
(* to the synthesis service; ada_analyze_threat has no suspending await.   *)
(* Each action below is one such uninterrupted segment.                    *)
(*                                                                         *)
(* Time is counted in ticks of 1/TicksPerSecond second.  The local clock   *)
(* read by ada_analyze_threat and the UTC clock read for the log record    *)
(* are the same clock `now` (constant zone offset).                        *)
(***************************************************************************)
EXTENDS Integers, Sequences, FiniteSets, TLC

VARIABLES
    raw,             \* body of the POST /api/threat request being validated
    env_key,         \* environment variable ELEVENLABS_KEY, or Unset
    ELEVENLABS_KEY,  \* module global read at import
    now,             \* wall clock, in ticks
    threat_log,      \* module global list
    voice,           \* app.state.__dict__ entries "voice_<threat_id>", by threat_id
    pc,              \* per request slot: "idle", "awaiting", "done", "raised"
                     \* ("input", "analyzed" in the classifier specification)
    alert,           \* per slot: the ThreatAlert being handled
    analysis,        \* per slot: the AdaAnalysis of process_threat
    ret,             \* per slot: what process_threat gave its caller
    outcome,         \* per slot: how the synthesis call ended
    classifiedAt,    \* per slot: clock value read by ada_analyze_threat
    logIdx,          \* per slot: position at which its record was appended
    arrival,         \* per slot: its request was the arrival-th to start
    requests,        \* number of POSTs issued to the synthesis service
    nHandled,        \* number of process_threat calls started
    putIds,          \* threat_ids under which audio was ever stored
    getResp          \* response of the GET endpoint served in the last step

vars == <<raw, env_key, ELEVENLABS_KEY, now, threat_log, voice, pc, alert,
          analysis, ret, outcome, classifiedAt, logIdx, arrival, requests,
          nHandled, putIds, getResp>>

----------------------------------------------------------------------------
(* Bounds *)

MaxSlots == 2        \* requests in flight at once
MaxHandled == 2      \* process_threat calls in the pipeline specification
MaxClock == 2        \* last clock tick
MaxAppends == 60     \* process_threat calls in the log specification

(* Resolution of the modelled clock: ticks per second. *)
TicksPerSecond == 2

Slots == 1..MaxSlots

----------------------------------------------------------------------------
(* Python values *)

None == "None"
EmptyBytes == <<>>                      \* b""
EmptyDict == <<>>                       \* {}

TruthyStr(x) == x # ""                  \* bool(x) of a str
TruthyBytes(x) == x # EmptyBytes        \* bool(x) of a bytes

DictGet(d, k, default) == IF k \in DOMAIN d THEN d[k] ELSE default

Min(a, b) == IF a < b THEN a ELSE b
Max(a, b) == IF a > b THEN a ELSE b

(* s[-n:] for n > 0 *)
LastSlice(s, n) == SubSeq(s, Max(Len(s) - n, 0) + 1, Len(s))

----------------------------------------------------------------------------
(* Configuration *)

Unset == "<unset>"

(* os.getenv(name, default) *)
GetEnv(env, default) == IF env = Unset THEN default ELSE env

(* Line 31: ELEVENLABS_KEY = os.getenv("ELEVENLABS_KEY", "") *)
LoadKey_placeholder(env) == GetEnv(env, "changeme")
LoadKey(env) == GetEnv(env, "")

----------------------------------------------------------------------------
(* ThreatAlert *)

ThreatAlert(src, type, sev, det) ==
    [source |-> src, alert_type |-> type, severity |-> sev, details |-> det]

DefaultAlert_medium == ThreatAlert("Defender", "BruteForce", "Medium", EmptyDict)
DefaultAlert == ThreatAlert("Defender", "BruteForce", "High", EmptyDict)

(* A JSON value of a request body: its JSON type, and its content when it is
   a string or an object. *)
JsonStr(x) == [type |-> "str", str |-> x, dict |-> EmptyDict]
JsonDict(d) == [type |-> "dict", str |-> "", dict |-> d]
JsonNull == [type |-> "null", str |-> "", dict |-> EmptyDict]
JsonList == [type |-> "list", str |-> "", dict |-> EmptyDict]

FieldNames == {"source", "alert_type", "severity", "details"}

(* The type a field is declared with: str, or dict for details. *)
FieldAccepts(name, v) ==
    IF name = "details" THEN v.type = "dict" ELSE v.type = "str"

(* Whether the body parses as a ThreatAlert: a JSON object whose fields, where
   given, have values of the declared types. *)
Validates(p) ==
    /\ p.shape = "object"
    /\ \A k \in DOMAIN p.fields : k \in FieldNames => FieldAccepts(k, p.fields[k])

StrField(p, name, default) ==
    IF name \in DOMAIN p.fields THEN p.fields[name].str ELSE default

DictField(p, name, default) ==
    IF name \in DOMAIN p.fields THEN p.fields[name].dict ELSE default

(* The ThreatAlert built from a body that validates. *)
ParseAlert(p) ==
    ThreatAlert(StrField(p, "source", DefaultAlert.source),
                StrField(p, "alert_type", DefaultAlert.alert_type),
                StrField(p, "severity", DefaultAlert.severity),
                DictField(p, "details", DefaultAlert.details))

(* No request body under validation. *)
NoPayload == [shape |-> "none", fields |-> <<>>]

----------------------------------------------------------------------------
(* ada_analyze_threat *)

(* f"THR-{datetime.now().strftime('%Y%m%d%H%M%S')}": the clock cut to whole
   seconds behind a fixed prefix. *)
FormatThreatId_minutes(t) ==
    [prefix |-> "THR-", stamp |-> t \div (60 * TicksPerSecond)]
FormatThreatId(t) == [prefix |-> "THR-", stamp |-> t \div TicksPerSecond]

Reasoning(a) ==
    << <<"Detected ", a.alert_type, " from ", a.source>>,
       <<"Analyzing patterns... ", DictGet(a.details, "attempts", "multiple"),
         " attempts detected">>,
       <<"GeoIP lookup: Origins from ",
         DictGet(a.details, "origins", "unknown regions")>>,
       <<"Correlating with knowledge graph...">>,
       <<"Risk assessment: ", a.severity, " severity confirmed">>,
       <<"Checking available remediation options...">> >>

RecommendedActions_fallthrough(type) ==
    IF type = "ImpossibleTravel" THEN
        << "Require re-authentication",
           "Enable location-based Conditional Access",
           "Flag session for review" >>
    ELSE IF type = "MalwareDetected" THEN
        << "Isolate affected device",
           "Revoke active sessions",
           "Trigger Defender scan",
           "Alert SOC team" >>
    ELSE
        << "Block source IPs in Conditional Access",
           "Enable MFA enforcement for targeted accounts",
           "Increase sign-in risk policy to High",
           "Notify security team via voice alert" >>
RecommendedActions(type) ==
    IF type = "BruteForce" THEN
        << "Block source IPs in Conditional Access",
           "Enable MFA enforcement for targeted accounts",
           "Increase sign-in risk policy to High",
           "Notify security team via voice alert" >>
    ELSE IF type = "ImpossibleTravel" THEN
        << "Require re-authentication",
           "Enable location-based Conditional Access",
           "Flag session for review" >>
    ELSE IF type = "MalwareDetected" THEN
        << "Isolate affected device",
           "Revoke active sessions",
           "Trigger Defender scan",
           "Alert SOC team" >>
    ELSE << >>

RiskScore_atLeastHigh(sev) == IF sev \in {"High", "Critical"} THEN 85 ELSE 60
RiskScore(sev) == IF sev = "High" THEN 85 ELSE 60

ada_analyze_threat(a, t) ==
    [threat_id |-> FormatThreatId(t),
     summary |-> <<a.alert_type, " attack detected - Auto-remediation initiated">>,
     reasoning |-> Reasoning(a),
     risk_score |-> RiskScore(a.severity),
     recommended_actions |-> RecommendedActions(a.alert_type),
     auto_remediated |-> TRUE,
     voice_message |-> None]

----------------------------------------------------------------------------
(* generate_voice_alert *)

(* The text sent for synthesis: the fixed narrative with the two details and
   the threat id interpolated. *)
VoiceMessage(an, a) ==
    <<"Hi, hier ist Ada", DictGet(a.details, "attempts", "tausende"),
      DictGet(a.details, "origins", "mehreren Regionen"), an.threat_id>>

(* Audio the service renders for a text. *)
Speech(text) == <<"audio/mpeg", text>>

StatusCodes == {200, 500}
Exceptions == {"ConnectError", "ReadTimeout"}

(* Whether generate_voice_alert gets past its early return to the POST. *)
ReachesPost(key) == TruthyStr(key)

(* What generate_voice_alert returns for a response of the service. *)
VoiceResult_anyStatus(status, content) == content
VoiceResult(status, content) == IF status = 200 THEN content ELSE EmptyBytes

----------------------------------------------------------------------------
(* process_threat *)

NoUrl == <<>>                           \* voice_url = None
VoiceUrl(tid) == <<"/api/voice/", tid>>

IsoUtc(t) == <<"utc", t>>

LogRecord(a, an, t) == [timestamp |-> IsoUtc(t), alert |-> a, analysis |-> an]

LogAppend_dropped(log, rec) == log
LogAppend_front(log, rec) == <<rec>> \o log
LogAppend_lastOnly(log, rec) == <<rec>>
LogAppend_overwrite(log, rec) ==
    IF log = <<>> THEN <<rec>> ELSE [log EXCEPT ![Len(log)] = rec]
LogAppend(log, rec) == Append(log, rec)

VoiceEnabled(key) == TruthyStr(key)

(* {**analysis.dict(), "voice_url": voice_url} *)
ResponseBody_voiced(an, url) ==
    [threat_id |-> an.threat_id, summary |-> an.summary,
     reasoning |-> an.reasoning, risk_score |-> an.risk_score,
     recommended_actions |-> an.recommended_actions,
     auto_remediated |-> an.auto_remediated,
     voice_message |-> IF url = NoUrl THEN an.voice_message ELSE "Voice alert sent",
     voice_url |-> url]
ResponseBody(an, url) ==
    [threat_id |-> an.threat_id, summary |-> an.summary,
     reasoning |-> an.reasoning, risk_score |-> an.risk_score,
     recommended_actions |-> an.recommended_actions,
     auto_remediated |-> an.auto_remediated,
     voice_message |-> an.voice_message, voice_url |-> url]

NoResp == [endpoint |-> "none", threat_id |-> <<>>, status |-> 0, body |-> <<>>]

NoRet == [kind |-> "none", body |-> <<>>]
Returned(an, url) == [kind |-> "returned", body |-> ResponseBody(an, url)]
Raised(exc) == [kind |-> "raised", body |-> [exception |-> exc]]

VoiceStore_single(store, tid, bytes) == [k \in {tid} |-> bytes]
VoiceStore_shared(store, tid, bytes) == [k \in DOMAIN store \cup {tid} |-> bytes]
VoiceStore(store, tid, bytes) == [k \in DOMAIN store \cup {tid} |->
                                    IF k = tid THEN bytes ELSE store[k]]

(* Lines 430-442: analyse, log, and either return without audio or suspend
   at the POST.  The two clock reads (lines 64 and 434) are a few
   instructions apart and fall into the same tick. *)
ProcessThreat(s, a) ==
    /\ pc[s] # "awaiting"
    /\ LET an == ada_analyze_threat(a, now)
           log == LogAppend(threat_log, LogRecord(a, an, now))
           posts == VoiceEnabled(ELEVENLABS_KEY) /\ ReachesPost(ELEVENLABS_KEY)
       IN /\ threat_log' = log
          /\ alert' = [alert EXCEPT ![s] = a]
          /\ analysis' = [analysis EXCEPT ![s] = an]
          /\ classifiedAt' = [classifiedAt EXCEPT ![s] = now]
          /\ logIdx' = [logIdx EXCEPT ![s] = Len(threat_log) + 1]
          /\ arrival' = [arrival EXCEPT ![s] = nHandled + 1]
          /\ nHandled' = nHandled + 1
          /\ IF posts
             THEN /\ pc' = [pc EXCEPT ![s] = "awaiting"]
                  /\ outcome' = [outcome EXCEPT ![s] = "pending"]
                  /\ ret' = [ret EXCEPT ![s] = NoRet]
                  /\ requests' = requests + 1
             ELSE /\ pc' = [pc EXCEPT ![s] = "done"]
                  /\ outcome' = [outcome EXCEPT ![s] = "skipped"]
                  /\ ret' = [ret EXCEPT ![s] = Returned(an, NoUrl)]
                  /\ requests' = requests
    /\ getResp' = NoResp
    /\ UNCHANGED <<raw, env_key, ELEVENLABS_KEY, now, voice, putIds>>

(* Lines 152-154 and 443-453: the service answered. *)
SynthResponds(s, status, content) ==
    /\ pc[s] = "awaiting"
    /\ LET audio_bytes == VoiceResult(status, content)
           tid == analysis[s].threat_id
       IN IF TruthyBytes(audio_bytes)
          THEN /\ voice' = VoiceStore(voice, tid, audio_bytes)
               /\ putIds' = putIds \cup {tid}
               /\ ret' = [ret EXCEPT ![s] = Returned(analysis[s], VoiceUrl(tid))]
          ELSE /\ UNCHANGED <<voice, putIds>>
               /\ ret' = [ret EXCEPT ![s] = Returned(analysis[s], NoUrl)]
    /\ pc' = [pc EXCEPT ![s] = "done"]
    /\ outcome' = [outcome EXCEPT ![s] =
                      IF status = 200 THEN "ok" ELSE "status"]
    /\ UNCHANGED <<raw, env_key, ELEVENLABS_KEY, now, threat_log, alert, analysis,
                   classifiedAt, logIdx, arrival, requests, nHandled>>
    /\ getResp' = NoResp

(* Line 136: client.post raises (transport error or the 30 s timeout); no
   except clause in generate_voice_alert or process_threat catches it. *)
SynthRaises(s, exc) ==
    /\ pc[s] = "awaiting"
    /\ pc' = [pc EXCEPT ![s] = "raised"]
    /\ ret' = [ret EXCEPT ![s] = Raised(exc)]
    /\ outcome' = [outcome EXCEPT ![s] = exc]
    /\ UNCHANGED <<raw, env_key, ELEVENLABS_KEY, now, threat_log, voice, alert,
                   analysis, classifiedAt, logIdx, arrival, requests, nHandled, putIds>>
    /\ getResp' = NoResp

----------------------------------------------------------------------------
(* get_voice_alert, get_threats *)

WindowSize == 50

get_voice_alert_unchecked(threat_id) ==
    [endpoint |-> "voice", threat_id |-> threat_id, status |-> 200,
     body |-> DictGet(voice, threat_id, EmptyBytes)]
get_voice_alert(threat_id) ==
    IF threat_id \notin DOMAIN voice \/ ~TruthyBytes(voice[threat_id])
    THEN [endpoint |-> "voice", threat_id |-> threat_id, status |-> 404,
          body |-> <<"error", "Voice not found">>]
    ELSE [endpoint |-> "voice", threat_id |-> threat_id, status |-> 200,
          body |-> voice[threat_id]]

get_threats_first == SubSeq(threat_log, 1, Min(Len(threat_log), WindowSize))
get_threats == LastSlice(threat_log, WindowSize)

GetVoiceAlert(threat_id) ==
    /\ getResp' = get_voice_alert(threat_id)
    /\ UNCHANGED <<raw, env_key, ELEVENLABS_KEY, now, threat_log, voice, pc, alert,
                   analysis, ret, outcome, classifiedAt, logIdx, arrival, requests,
                   nHandled, putIds>>

GetThreats ==
    /\ getResp' = [endpoint |-> "threats", threat_id |-> <<>>, status |-> 200,
                   body |-> get_threats]
    /\ UNCHANGED <<raw, env_key, ELEVENLABS_KEY, now, threat_log, voice, pc, alert,
                   analysis, ret, outcome, classifiedAt, logIdx, arrival, requests,
                   nHandled, putIds>>

Tick ==
    /\ now < MaxClock
    /\ now' = now + 1
    /\ UNCHANGED <<raw, env_key, ELEVENLABS_KEY, threat_log, voice, pc, alert,
                   analysis, ret, outcome, classifiedAt, logIdx, arrival, requests,
                   nHandled, putIds>>
    /\ getResp' = NoResp

----------------------------------------------------------------------------
(* The pipeline: concurrent requests *)

EnvKeys == {Unset, "", "sk-key"}

Alerts == {DefaultAlert,
           ThreatAlert("Sentinel", "PortScan", "Low",
                       [k \in {"attempts", "origins"} |->
                           IF k = "attempts" THEN "5000" ELSE "RU, CN"])}

ThreatIds == {FormatThreatId(t) : t \in 0..MaxClock}

(* The state after import, before any request. *)
Started ==
    /\ ELEVENLABS_KEY = LoadKey(env_key)
    /\ threat_log = <<>>
    /\ voice = <<>>
    /\ analysis = [s \in Slots |-> ada_analyze_threat(DefaultAlert, 0)]
    /\ ret = [s \in Slots |-> NoRet]
    /\ outcome = [s \in Slots |-> "none"]
    /\ classifiedAt = [s \in Slots |-> 0]
    /\ logIdx = [s \in Slots |-> 0]
    /\ arrival = [s \in Slots |-> 0]
    /\ requests = 0
    /\ nHandled = 0
    /\ putIds = {}
    /\ getResp = NoResp

Init ==
    /\ env_key \in EnvKeys
    /\ now = 0
    /\ Started
    /\ pc = [s \in Slots |-> "idle"]
    /\ alert = [s \in Slots |-> DefaultAlert]
    /\ raw = NoPayload

(* A new request takes the first slot that has no request in flight. *)
FreeSlot(s) == pc[s] # "awaiting" /\ \A r \in 1..(s - 1) : pc[r] = "awaiting"

Handle ==
    \E s \in Slots, a \in Alerts :
        nHandled < MaxHandled /\ FreeSlot(s) /\ ProcessThreat(s, a)

Respond ==
    \E s \in Slots, status \in StatusCodes :
        \E content \in {EmptyBytes, Speech(VoiceMessage(analysis[s], alert[s]))} :
            SynthResponds(s, status, content)

Fail == \E s \in Slots, exc \in Exceptions : SynthRaises(s, exc)

QueryVoice == \E id \in ThreatIds : GetVoiceAlert(id)

Next == Handle \/ Respond \/ Fail \/ QueryVoice \/ Tick

Spec == Init /\ [][Next]_vars

(* A request body is validated against ThreatAlert before process_threat is
   called; a body that does not validate is answered 422. *)
Rejected == [kind |-> "rejected", body |-> [status |-> 422]]

SubmitPayload ==
    /\ pc[1] = "received"
    /\ IF Validates(raw)
       THEN ProcessThreat(1, ParseAlert(raw))
       ELSE /\ pc' = [pc EXCEPT ![1] = "rejected"]
            /\ ret' = [ret EXCEPT ![1] = Rejected]
            /\ UNCHANGED <<raw, env_key, ELEVENLABS_KEY, now, threat_log, voice,
                           alert, analysis, outcome, classifiedAt, logIdx,
                           arrival, requests, nHandled, putIds, getResp>>

StrValues(name) ==
    {JsonStr(IF name = "source" THEN "Sentinel"
             ELSE IF name = "alert_type" THEN "PortScan" ELSE "Low"),
     JsonNull, JsonList}

DictValues ==
    {JsonDict([k \in {"attempts"} |-> "5000"]), JsonStr("5000 attempts"), JsonNull}

FieldValues(name) == IF name = "details" THEN DictValues ELSE StrValues(name)

Objects ==
    UNION {[present -> UNION {FieldValues(k) : k \in FieldNames}] :
             present \in SUBSET FieldNames}

Payloads ==
    {[shape |-> "object", fields |-> f] :
        f \in {g \in Objects : \A k \in DOMAIN g : g[k] \in FieldValues(k)}}
    \cup {[shape |-> sh, fields |-> <<>>] : sh \in {"array", "string"}}

InitNormalize ==
    /\ raw \in Payloads
    /\ env_key \in EnvKeys
    /\ now \in 0..MaxClock
    /\ Started
    /\ pc = [s \in Slots |-> IF s = 1 THEN "received" ELSE "idle"]
    /\ alert = [s \in Slots |-> DefaultAlert]

NextNormalize == SubmitPayload \/ Respond \/ Fail

SpecNormalize == InitNormalize /\ [][NextNormalize]_vars

(* The pipeline with both read-only endpoints. *)
NextQueries == Next \/ GetThreats

SpecQueries == Init /\ [][NextQueries]_vars

(* The pipeline without the read-only endpoint.  The POST is given
   timeout=30.0 (line 150), so a synthesis call in flight ends: it is
   answered or it raises. *)
NextLive == Handle \/ Respond \/ Fail \/ Tick

SpecLive == Init /\ [][NextLive]_vars /\ WF_vars(Respond \/ Fail)

----------------------------------------------------------------------------
(* The log: a long run of alerts handled one after the other, the k-th one
   carrying source "k". *)

SeqAlert(k) == ThreatAlert(ToString(k), "BruteForce", "High", EmptyDict)

HandleSeq == nHandled < MaxAppends /\ ProcessThreat(1, SeqAlert(nHandled + 1))

InitLog ==
    /\ env_key \in EnvKeys
    /\ now \in 0..MaxClock
    /\ Started
    /\ pc = [s \in Slots |-> "idle"]
    /\ alert = [s \in Slots |-> DefaultAlert]
    /\ raw = NoPayload

NextLog == HandleSeq \/ Respond \/ Fail \/ GetThreats

SpecLog == InitLog /\ [][NextLog]_vars

----------------------------------------------------------------------------
(* The classifier alone, on every alert of AllAlerts at every clock value. *)

AlertTypes == {"BruteForce", "ImpossibleTravel", "MalwareDetected",
               "PortScan", "bruteforce", ""}
Severities == {"High", "Medium", "Low", "Critical", "high", ""}
Details == {EmptyDict,
            [k \in {"attempts"} |-> "5000"],
            [k \in {"attempts", "origins"} |->
                IF k = "attempts" THEN "5000" ELSE "RU, CN"]}

AllAlerts == {ThreatAlert("Defender", ty, sev, det) :
                ty \in AlertTypes, sev \in Severities, det \in Details}

InitClassify ==
    /\ env_key = Unset
    /\ now \in 0..MaxClock
    /\ Started
    /\ raw = NoPayload
    /\ pc = [s \in Slots |-> IF s = 1 THEN "input" ELSE "idle"]
    /\ \E a \in AllAlerts :
          alert = [s \in Slots |-> IF s = 1 THEN a ELSE DefaultAlert]

AnalyzeInput ==
    /\ pc[1] = "input"
    /\ analysis' = [analysis EXCEPT ![1] = ada_analyze_threat(alert[1], now)]
    /\ classifiedAt' = [classifiedAt EXCEPT ![1] = now]
    /\ pc' = [pc EXCEPT ![1] = "analyzed"]
    /\ UNCHANGED <<raw, env_key, ELEVENLABS_KEY, now, threat_log, voice, alert, ret,
                   outcome, logIdx, arrival, requests, nHandled, putIds, getResp>>

NextClassify == AnalyzeInput

SpecClassify == InitClassify /\ [][NextClassify]_vars

----------------------------------------------------------------------------
(* Properties *)

(* The slot's request has been analysed. *)
Analyzed(s) == pc[s] \notin {"idle", "input"}

(* The record appended for the slot's request is in the log. *)
InLog(s) ==
    /\ logIdx[s] \in 1..Len(threat_log)
    /\ threat_log[logIdx[s]].alert = alert[s]
    /\ threat_log[logIdx[s]].analysis = analysis[s]

(* The audio the service renders for a logged incident. *)
SpeechOf(rec) == Speech(VoiceMessage(rec.analysis, rec.alert))

Carriers(id) == {i \in 1..Len(threat_log) : threat_log[i].analysis.threat_id = id}

(* C1: after k handled alerts the recent-window query returns exactly the
   last min(k, 50) records, oldest first: its i-th record is the alert
   numbered k - min(k, 50) + i. *)
C1_RecentWindow ==
    getResp.endpoint = "threats" =>
        LET w == getResp.body
            n == Min(nHandled, 50)
        IN /\ Len(w) = n
           /\ \A i \in 1..n : w[i].alert.source = ToString(nHandled - n + i)

C1_Witness ==
    /\ getResp.endpoint = "threats"
    /\ nHandled = 60
    /\ Len(getResp.body) = 50
    /\ getResp.body[1].alert.source = "11"
    /\ getResp.body[50].alert.source = "60"

(* C2: the log held by the store never has more than 50 records. *)
C2_StoredLogCapped == Len(threat_log) <= 50

(* C3: a synthesis call that ended in a non-200 status, a transport error
   or a timeout leaves the request answered with the analysis and no audio
   reference. *)
C3_FailuresSwallowed ==
    \A s \in Slots :
        outcome[s] \in {"status"} \cup Exceptions =>
            /\ ret[s].kind = "returned"
            /\ ret[s].body.voice_url = NoUrl

(* C4, as claimed: while an incident's synthesis call has not completed, its
   record is not in the log. *)
C4_LoggedAfterSynthesis ==
    \A s \in Slots : pc[s] = "awaiting" => ~InLog(s)

(* C4, amended: the record is appended before the synthesis call is issued:
   whenever an incident's synthesis call is in flight or has ended, and
   whenever its request has been answered, its record is in the log. *)
C4_LoggedBeforeSynthesis ==
    \A s \in Slots :
        (pc[s] \in {"awaiting", "done", "raised"}) => InLog(s)

C4_Witness ==
    \E s \in Slots : pc[s] = "awaiting" /\ outcome[s] = "pending" /\ InLog(s)

(* C5: with no synthesis credential configured, every request is answered
   without an audio reference, no request is sent to the synthesis service
   and nothing is stored in the audio cache. *)
C5_NoCredentialNoSynthesis ==
    env_key \in {Unset, ""} =>
        /\ requests = 0
        /\ DOMAIN voice = {}
        /\ \A s \in Slots :
              pc[s] # "idle" =>
                  /\ ret[s].kind = "returned"
                  /\ ret[s].body.voice_url = NoUrl

C5_Witness ==
    /\ env_key = Unset
    /\ nHandled >= 2
    /\ pc[1] = "done"
    /\ ret[1].body.voice_url = NoUrl

(* C6: asking for the audio of an id under which none was ever stored is
   answered 404 "Voice not found". *)
C6_AudioNotFound ==
    /\ \A id \in ThreatIds \ putIds : get_voice_alert(id).status = 404
    /\ (getResp.endpoint = "voice" /\ getResp.threat_id \notin putIds) =>
          /\ getResp.status = 404
          /\ getResp.body = <<"error", "Voice not found">>

C6_Witness ==
    /\ getResp.endpoint = "voice"
    /\ getResp.status = 404
    /\ putIds # {}
    /\ \E s \in Slots :
          /\ pc[s] = "done"
          /\ outcome[s] = "status"
          /\ analysis[s].threat_id = getResp.threat_id

(* C7, as claimed: every id with stored audio is carried by a single
   analysis, and the audio under it is the one synthesized for that
   analysis. *)
C7_OneToOne ==
    \A id \in DOMAIN voice :
        /\ Cardinality(Carriers(id)) = 1
        /\ \A i \in Carriers(id) : voice[id] = SpeechOf(threat_log[i])

(* C7, amended: the audio stored under an id was synthesized for an
   analysis carrying that id, and when a single analysis carries the id it
   is that one's audio. *)
C7_BlobOfCarrier ==
    \A id \in DOMAIN voice :
        /\ \E i \in Carriers(id) : voice[id] = SpeechOf(threat_log[i])
        /\ Cardinality(Carriers(id)) = 1 =>
              \A i \in Carriers(id) : voice[id] = SpeechOf(threat_log[i])

C7_Witness ==
    \E id1, id2 \in DOMAIN voice :
        /\ id1 # id2
        /\ Cardinality(Carriers(id1)) = 1
        /\ Cardinality(Carriers(id2)) = 1

(* C8: two requests with the same alert content analysed at least one
   second apart have different threat ids and two records in the log. *)
C8_DistinctIds ==
    \A s1, s2 \in Slots :
        (/\ s1 # s2
         /\ Analyzed(s1) /\ Analyzed(s2)
         /\ alert[s1] = alert[s2]
         /\ classifiedAt[s2] - classifiedAt[s1] >= TicksPerSecond) =>
            /\ analysis[s1].threat_id # analysis[s2].threat_id
            /\ InLog(s1) /\ InLog(s2)
            /\ logIdx[s1] # logIdx[s2]

C8_Witness ==
    \E s1, s2 \in Slots :
        /\ s1 # s2
        /\ Analyzed(s1) /\ Analyzed(s2)
        /\ alert[s1] = alert[s2]
        /\ classifiedAt[s2] - classifiedAt[s1] >= TicksPerSecond
        /\ Len(threat_log) = 2

(* C9: every alert can be analysed, and the analysis of any alert has risk
   score 85 when the severity is exactly "High" and 60 otherwise, six
   reasoning entries, and a threat id and a summary that are not empty. *)
NonEmptyText(t) == \E i \in DOMAIN t : t[i] # ""

C9_ClassifyResult ==
    /\ pc[1] = "input" => ENABLED AnalyzeInput
    /\ \A s \in Slots :
        Analyzed(s) =>
            /\ (alert[s].severity = "High" => analysis[s].risk_score = 85)
            /\ (alert[s].severity # "High" => analysis[s].risk_score = 60)
            /\ Len(analysis[s].reasoning) = 6
            /\ analysis[s].threat_id.prefix # ""
            /\ NonEmptyText(analysis[s].summary)

C9_Witness ==
    /\ pc[1] = "analyzed"
    /\ alert[1].severity = "Critical"
    /\ alert[1].alert_type = "PortScan"
    /\ analysis[1].risk_score = 60

(* C10: the recommended actions are the list of the alert's category,
   matched exactly, and empty for any other category; auto_remediated is
   true in every case. *)
C10_Actions ==
    \A s \in Slots :
        Analyzed(s) =>
            LET ty == alert[s].alert_type
                acts == analysis[s].recommended_actions
            IN /\ analysis[s].auto_remediated = TRUE
               /\ ty = "BruteForce" =>
                    acts = << "Block source IPs in Conditional Access",
                              "Enable MFA enforcement for targeted accounts",
                              "Increase sign-in risk policy to High",
                              "Notify security team via voice alert" >>
               /\ ty = "ImpossibleTravel" =>
                    acts = << "Require re-authentication",
                              "Enable location-based Conditional Access",
                              "Flag session for review" >>
               /\ ty = "MalwareDetected" =>
                    acts = << "Isolate affected device",
                              "Revoke active sessions",
                              "Trigger Defender scan",
                              "Alert SOC team" >>
               /\ ty \notin {"BruteForce", "ImpossibleTravel", "MalwareDetected"} =>
                    acts = << >>

C10_Witness ==
    /\ pc[1] = "analyzed"
    /\ alert[1].alert_type = "PortScan"
    /\ analysis[1].recommended_actions = << >>
    /\ analysis[1].auto_remediated = TRUE

(* C11: nothing after the analysis alters it: the analysis held by the
   request and the one in its log record are the value ada_analyze_threat
   gave, and a returned response carries exactly those fields plus
   voice_url, whether synthesis was skipped, failed or succeeded. *)
C11_AnalysisUnaltered ==
    \A s \in Slots :
        pc[s] \in {"awaiting", "done", "raised"} =>
            LET an0 == ada_analyze_threat(alert[s], classifiedAt[s])
            IN /\ analysis[s] = an0
               /\ logIdx[s] \in 1..Len(threat_log)
               /\ threat_log[logIdx[s]].analysis = an0
               /\ ret[s].kind = "returned" =>
                     /\ DOMAIN ret[s].body = DOMAIN an0 \cup {"voice_url"}
                     /\ \A f \in DOMAIN an0 : ret[s].body[f] = an0[f]

C11_Witness ==
    \E s1, s2 \in Slots :
        /\ outcome[s1] = "ok"
        /\ ret[s1].kind = "returned"
        /\ ret[s1].body.voice_url # NoUrl
        /\ outcome[s2] = "status"
        /\ ret[s2].kind = "returned"
        /\ ret[s2].body.voice_url = NoUrl

(* C12: every request whose handling has started comes to have its record
   in the log, however its synthesis call ends, and the log holds one
   record per started request: none is lost to another request's append. *)
C12_EventuallyLogged ==
    /\ [](Len(threat_log) = nHandled)
    /\ \A s \in Slots : (pc[s] \in {"awaiting", "done", "raised"}) ~> InLog(s)

C12_Witness ==
    /\ Len(threat_log) = 2
    /\ \E s1, s2 \in Slots :
          /\ outcome[s1] \in Exceptions
          /\ InLog(s1)
          /\ outcome[s2] = "ok"
          /\ InLog(s2)
          /\ logIdx[s1] # logIdx[s2]

(* C13: a record in the log is never changed or moved: every step (a
   further request, the storing of audio, an audio retrieval, a
   recent-window query) leaves each record of the log at its position with
   its content. *)
C13_NoMutation ==
    [][\A i \in 1..Len(threat_log) :
          /\ i <= Len(threat_log')
          /\ threat_log'[i] = threat_log[i]]_vars

C13_Witness ==
    /\ getResp.endpoint = "threats"
    /\ Len(getResp.body) = 2
    /\ getResp.body = threat_log
    /\ getResp.body[1] # getResp.body[2]
    /\ putIds # {}

(* A field of the body is given with a value of its declared type. *)
WellTyped(k) ==
    /\ k \in DOMAIN raw.fields
    /\ raw.fields[k].type = (IF k = "details" THEN "dict" ELSE "str")

Malformed(k) == k \in DOMAIN raw.fields /\ ~WellTyped(k)

(* The alert process_threat was called with takes each field from the body
   where WellTyped, and its default otherwise. *)
DefaultedAlert ==
    /\ alert[1].source =
          (IF WellTyped("source") THEN raw.fields["source"].str ELSE "Defender")
    /\ alert[1].alert_type =
          (IF WellTyped("alert_type") THEN raw.fields["alert_type"].str
           ELSE "BruteForce")
    /\ alert[1].severity =
          (IF WellTyped("severity") THEN raw.fields["severity"].str ELSE "High")
    /\ alert[1].details =
          (IF WellTyped("details") THEN raw.fields["details"].dict ELSE EmptyDict)

(* C14, as claimed: a body that is a JSON object is never rejected; its
   missing and its malformed fields are replaced by their defaults and the
   alert is analysed. *)
C14_MalformedDefaulted ==
    (raw.shape = "object" /\ pc[1] # "received") =>
        /\ pc[1] # "rejected"
        /\ DefaultedAlert
        /\ analysis[1] = ada_analyze_threat(alert[1], classifiedAt[1])

(* C14, amended: a body is rejected exactly when it is no JSON object or
   gives a field a value its declared type does not accept; otherwise its
   missing fields are replaced by their defaults and the alert is analysed
   and logged. *)
C14_MissingDefaulted ==
    (raw.shape # "none" /\ pc[1] # "received") =>
        /\ pc[1] = "rejected" <=>
              (raw.shape # "object" \/ \E k \in FieldNames : Malformed(k))
        /\ pc[1] = "rejected" => (ret[1].body.status = 422 /\ threat_log = <<>>)
        /\ pc[1] # "rejected" =>
              /\ DefaultedAlert
              /\ analysis[1] = ada_analyze_threat(alert[1], classifiedAt[1])
              /\ InLog(1)

C14_Witness ==
    /\ pc[1] = "done"
    /\ raw.shape = "object"
    /\ DOMAIN raw.fields = {"alert_type"}
    /\ alert[1] = ThreatAlert("Defender", "PortScan", "High", EmptyDict)
    /\ analysis[1].risk_score = 85

(* The slot's request has started. *)
HandlingStarted(s) == pc[s] \in {"awaiting", "done", "raised"}

(* C15: of two requests, the one whose handling started first has its
   record earlier in the log and in the recent window, also when the later
   one's synthesis call has ended and the earlier one's has not. *)
C15_ArrivalOrder ==
    \A s1, s2 \in Slots :
        (HandlingStarted(s1) /\ HandlingStarted(s2) /\ arrival[s1] < arrival[s2]) =>
            LET w == get_threats
                off == Len(threat_log) - Len(w)
            IN /\ InLog(s1) /\ InLog(s2)
               /\ logIdx[s1] < logIdx[s2]
               /\ logIdx[s1] > off =>
                     /\ w[logIdx[s1] - off].alert = alert[s1]
                     /\ w[logIdx[s1] - off].analysis = analysis[s1]
                     /\ w[logIdx[s2] - off].alert = alert[s2]
                     /\ w[logIdx[s2] - off].analysis = analysis[s2]

C15_Witness ==
    \E s1, s2 \in Slots :
        /\ arrival[s1] < arrival[s2]
        /\ pc[s1] = "awaiting"
        /\ pc[s2] = "done"
        /\ outcome[s2] = "ok"
        /\ alert[s1] # alert[s2]
        /\ logIdx[s1] < logIdx[s2]

(* What the synthesis service may send back for the slot's request. *)
Contents(s) == {EmptyBytes, Speech(VoiceMessage(analysis[s], alert[s]))}

(* C16: a step in which the service answers with a status other than 200,
   or with an empty body, leaves the audio cache as it was and returns no
   audio reference; one in which it answers 200 with bytes files them under
   the request's threat id; a call that raises stores nothing; and the cache
   changes in no other step. *)
C16_StoredOnlyOnSuccess ==
    [][/\ \A s \in Slots, status \in StatusCodes :
            \A content \in Contents(s) :
                SynthResponds(s, status, content) =>
                    IF status = 200 /\ content # EmptyBytes
                    THEN /\ analysis[s].threat_id \in DOMAIN voice'
                         /\ voice'[analysis[s].threat_id] = content
                         /\ ret'[s].body.voice_url = VoiceUrl(analysis[s].threat_id)
                    ELSE /\ voice' = voice
                         /\ ret'[s].kind = "returned"
                         /\ ret'[s].body.voice_url = NoUrl
       /\ \A s \in Slots, exc \in Exceptions :
            SynthRaises(s, exc) => voice' = voice
       /\ voice' # voice =>
            \E s \in Slots :
                SynthResponds(s, 200, Speech(VoiceMessage(analysis[s], alert[s])))
      ]_vars

C16_Witness ==
    \E s1, s2 \in Slots :
        /\ pc[s1] = "done" /\ pc[s2] = "done"
        /\ outcome[s1] = "ok"
        /\ ret[s1].body.voice_url = NoUrl
        /\ outcome[s2] = "ok"
        /\ ret[s2].body.voice_url # NoUrl
        /\ DOMAIN voice = {analysis[s2].threat_id}
        /\ analysis[s1].threat_id # analysis[s2].threat_id

(* C17: an audio reference returned by process_threat names the request's
   threat id, and the audio of every id a reference was ever returned for
   (every id audio was stored under) can be retrieved: get_voice_alert
   answers 200 with bytes that are not empty, in the state of the return and
   in every state after it. *)
C17_ReferenceResolves ==
    /\ \A s \in Slots :
          (ret[s].kind = "returned" /\ ret[s].body.voice_url # NoUrl) =>
              /\ ret[s].body.voice_url = VoiceUrl(ret[s].body.threat_id)
              /\ ret[s].body.threat_id \in putIds
    /\ \A id \in putIds :
          /\ get_voice_alert(id).status = 200
          /\ get_voice_alert(id).body # EmptyBytes
    /\ (getResp.endpoint = "voice" /\ getResp.threat_id \in putIds) =>
          (getResp.status = 200 /\ getResp.body # EmptyBytes)

C17_Witness ==
    /\ getResp.endpoint = "voice"
    /\ getResp.status = 200
    /\ Cardinality(putIds) = 2
    /\ \E s \in Slots :
          /\ ret[s].kind = "returned"
          /\ ret[s].body.voice_url = VoiceUrl(getResp.threat_id)
          /\ arrival[s] = 1

====
